---- MODULE Spec2Model ----
(***************************************************************************)
(* State-machine model of build_manager.py: the LogWriter, the             *)
(* BuildManager workflow engine with its nine steps, the menu / CLI front  *)
(* end, and the atexit / signal cleanup.                                   *)
(*                                                                         *)
(* One action is one run of consecutive bytecode between two observable    *)
(* effects (a file-system change, a subprocess, a summary record).  The    *)
(* signal handler may be entered between any two actions, as CPython       *)
(* delivers signals between bytecodes of the main thread.                  *)
(***************************************************************************)
EXTENDS Integers, Sequences, FiniteSets, TLC

VARIABLES
    argv,            \* argv[1] lower-cased, "" when the menu is used
    dry_run,         \* BuildManager.dry_run
    path_tools,      \* tools shutil.which resolves
    summary,         \* BuildManager.summary
    cleanup_paths,   \* BuildManager.cleanup_paths
    log,             \* lines written to the log file, <<level, message, argument>>
    handle_closed,   \* LogWriter._handle.closed
    backup_target,   \* the backup directory exists
    bfiles,          \* content of each backup file
    manifest,        \* content of checksums.sha256
    vendor_assets,   \* the vendor assets directory exists
    repo_dir,        \* the repository directory exists
    dts,             \* the device-tree file inside the repository
    mk,              \* generic.mk: whether it exists and what its text holds
    overlay_dir,     \* the repository's files/ overlay
    tmpdirs,         \* staging directories present on disk
    artifacts,       \* number of files matching the artifact glob
    pc,              \* position of the main thread
    idx,             \* loop index inside the running step
    step,            \* position in steps of the step being run, 0 if none
    inFull,          \* run_full_workflow is on the stack
    overlay_tmp,     \* local variable overlay_tmp of prepare_overlay_directory
    cur,             \* local variable path of _cleanup
    inHandler,       \* _handle_signal is on the stack
    inAtexit,        \* the interpreter is running its exit hooks
    exitCode,        \* process exit status, -1 while running
    choices,         \* menu selections read so far
    signals,         \* signals delivered so far
    procs,           \* external processes started so far
    failures,        \* external commands that ended with a non-zero status
    started,         \* steps started since the last run_full_workflow began
    failedAt,        \* step whose failure ended the last full run, 0 if none
    displayed,       \* summaries printed by show_summary
    registered,      \* every path ever appended to cleanup_paths
    removed,         \* paths removed by _cleanup, in order
    closes,          \* number of times the file handle was really closed
    logRaised,       \* number of logging calls that raised
    sumAtStart,      \* length of the summary when the current step was entered
    lastOutcome,     \* how the last step invocation ended: none, returned, raised
    runKind,         \* what was last begun: none, full (workflow), step (single)
    calls,           \* helper methods invoked directly, outside any step
    origin           \* generic.mk at origin/<branch> as last fetched or cloned

fsVars   == <<backup_target, bfiles, manifest, vendor_assets, repo_dir, dts, mk,
              overlay_dir, tmpdirs, artifacts>>
envVars  == <<argv, dry_run, path_tools, calls, origin>>
sigVars  == <<inHandler, inAtexit, signals, cur, removed, closes, logRaised,
              handle_closed>>
vars     == <<argv, dry_run, path_tools, summary, cleanup_paths, log,
              handle_closed, backup_target, bfiles, manifest, vendor_assets,
              repo_dir, dts, mk, overlay_dir, tmpdirs, artifacts, pc, idx,
              step, inFull, overlay_tmp, cur, inHandler, inAtexit, exitCode,
              choices, signals, procs, failures, started,
              failedAt,
              displayed, registered, removed, closes, logRaised, sumAtStart,
              lastOutcome, runKind, calls, origin>>

(***************************************************************************)
(* Bounds                                                                  *)
(***************************************************************************)
MaxChoices == 1      \* menu selections before the operator chooses 0
MaxSignals == 1      \* signals delivered to the process
MaxFailures == 1     \* external commands that exit non-zero
NPartitions == 1     \* entries of BUILD_BACKUP_PARTITIONS
MaxCalls == 2        \* direct invocations of the helper methods
MaxSelections == 2   \* menu selections of a session that only runs steps

(***************************************************************************)
(* Program constants                                                       *)
(***************************************************************************)
REQUIRED_TOOLS == {"git", "ssh", "scp", "rsync", "make", "awk", "tar", "python3", "xz"}

NInfoCommands == 3
NTargets == 3
NSteps == 9

\* steps of run_full_workflow, by position
steps == <<"preflight_checks", "backup_important_files", "fetch_vendor_blobs",
           "clone_or_update_repo", "apply_custom_configs",
           "prepare_overlay_directory", "run_menuconfig", "build_firmware",
           "verify_artifacts">>

\* first argument of _record_summary in each step
StepLabel == <<"Preflight checks", "Backup", "Vendor assets", "Repository sync",
               "Custom configs", "Overlay", "menuconfig", "Build",
               "Artefact verification">>

\* main(): keyword -> step position, 0 for run_full_workflow
commands == [full |-> 0, preflight |-> 1, backup |-> 2, vendor |-> 3, sync |-> 4,
             configs |-> 5, overlay |-> 6, menuconfig |-> 7, build |-> 8,
             verify |-> 9]

Keywords == DOMAIN commands

\* position of the first statement after the intent message of each step
StepBody == <<"preflight", "backup_mkdir", "vendor_mkdir", "sync_check",
              "configs_check", "overlay_check", "menuconfig_check",
              "build_check", "verify_check">>

\* fetch_vendor_blobs.targets: is the blob optional
targets == <<FALSE, TRUE, TRUE>>

NTransfers == NInfoCommands + NPartitions

\* files the backup directory can hold besides the manifest: the transfer
\* destinations 1..NTransfers, and mtd13-ART.bin, which no transfer of this
\* process writes (an earlier run with another partition list left it)
NFiles == NTransfers + 1

\* device numbers of the partition list, in the order of the list
Devices == <<22, 23, 20, 24>>

(***************************************************************************)
(* Helpers shared by the actions                                           *)
(***************************************************************************)
Entry(level, msg, arg) == <<level, msg, arg>>

\* LogWriter._write on an open handle
LogLines(lines) == log' = log \o lines

\* BuildManager._record_summary
_record_summary(name, status) == summary' = Append(summary, <<name, status>>)

\* the step returned normally: next iteration of run_full_workflow, or back
\* to main() / show_menu()
StepReturn ==
    /\ lastOutcome' = "returned"
    /\ inFull' = (inFull /\ step < NSteps)
    /\ IF inFull
       THEN IF step < NSteps
            THEN /\ pc' = "step_begin"
                 /\ step' = step + 1
            ELSE /\ pc' = "show"
                 /\ step' = 0
       ELSE /\ pc' = IF argv # "" THEN "show" ELSE "prompt"
            /\ step' = 0

\* StepRaise as it would be if main() and show_menu() wrapped the call of a
\* single step in the try / except of run_full_workflow
StepRaiseSwallowed ==
    /\ lastOutcome' = "raised"
    /\ pc' = IF inFull THEN "full_except"
             ELSE IF argv # "" THEN "show" ELSE "prompt"
    /\ UNCHANGED <<step, inFull>>

\* the step raised an exception derived from Exception
StepRaise ==
    /\ lastOutcome' = "raised"
    /\ pc' = IF inFull THEN "full_except" ELSE "uncaught"
    /\ UNCHANGED <<step, inFull>>

\* the step goes on to its next statement
StepGoto(label) ==
    /\ pc' = label
    /\ UNCHANGED <<step, inFull, lastOutcome>>

\* hashlib digest of a file content
_sha256(content) == <<"sha256", content>>

\* rank of a directory entry's name in string order: checksums.sha256 (entry
\* 0), cmdline.txt, dmesg.txt, mtd<NN>-<label>.bin by device number,
\* proc-mtd.txt
NameKey(i) ==
    CASE i = 0 -> 0
      [] i = 3 -> 1
      [] i = 2 -> 2
      [] i = 1 -> 99
      [] i = NFiles -> 13
      [] OTHER -> Devices[i - NInfoCommands]

\* sorted(entries)
RECURSIVE SortByName(_)
SortByName(S) ==
    IF S = {} THEN <<>>
    ELSE LET m == CHOOSE x \in S : \A y \in S : NameKey(x) <= NameKey(y)
         IN  <<m>> \o SortByName(S \ {m})

\* backup_target.iterdir() once checksums.sha256 has been opened for writing
DirEntries(files) == {0} \cup {i \in DOMAIN files : files[i] # "absent"}

\* the lines written to checksums.sha256: the entry of the manifest itself
\* is skipped
ManifestLines(files) ==
    LET items == SortByName({e \in DirEntries(files) : e # 0})
    IN  [n \in 1..Len(items) |-> <<_sha256(files[items[n]]), items[n]>>]

(***************************************************************************)
(* Initial states: BuildManager.__init__ has run                           *)
(***************************************************************************)
\* generic.mk is missing
NoRecipe == [exists |-> FALSE, stanzas |-> 0, named |-> FALSE]

\* generic.mk holding n copies of the device stanza; named: the text
\* Device/xiaomi_redmi_ra74 also occurs outside of them
Recipe(n, named) == [exists |-> TRUE, stanzas |-> n, named |-> named]

\* "Device/xiaomi_redmi_ra74" in content
HasDeviceName(r) == r.stanzas > 0 \/ r.named

\* workspaces the process can be started in: nothing there yet; only the
\* backup and vendor directories; a fresh clone; a clone without the recipe
\* file; a clone whose recipe file names the device without holding the
\* stanza; a patched and built tree
Worlds ==
    { [backup_target |-> FALSE, vendor_assets |-> FALSE, repo_dir |-> FALSE,
       dts |-> "absent", mk |-> NoRecipe, overlay_dir |-> "absent", artifacts |-> 0],
      [backup_target |-> TRUE, vendor_assets |-> TRUE, repo_dir |-> FALSE,
       dts |-> "absent", mk |-> NoRecipe, overlay_dir |-> "absent", artifacts |-> 0],
      [backup_target |-> FALSE, vendor_assets |-> TRUE, repo_dir |-> TRUE,
       dts |-> "absent", mk |-> Recipe(0, FALSE), overlay_dir |-> "absent", artifacts |-> 0],
      [backup_target |-> TRUE, vendor_assets |-> FALSE, repo_dir |-> TRUE,
       dts |-> "other", mk |-> NoRecipe, overlay_dir |-> "absent", artifacts |-> 0],
      [backup_target |-> FALSE, vendor_assets |-> TRUE, repo_dir |-> TRUE,
       dts |-> "other", mk |-> Recipe(0, TRUE), overlay_dir |-> "absent",
       artifacts |-> 0],
      [backup_target |-> TRUE, vendor_assets |-> TRUE, repo_dir |-> TRUE,
       dts |-> "fixed", mk |-> Recipe(1, FALSE), overlay_dir |-> "old", artifacts |-> 2] }

Constructed ==
    /\ argv \in Keywords \cup {"", "bogus"}
    /\ dry_run \in BOOLEAN
    /\ path_tools \in {REQUIRED_TOOLS, REQUIRED_TOOLS \ {"rsync", "xz"}}
    /\ summary = <<>>
    /\ cleanup_paths = <<>>
    /\ log = << Entry("INFO", "Build manager initialised", "") >>
    /\ handle_closed = FALSE
    /\ \E w \in Worlds :
          /\ backup_target = w.backup_target
          /\ vendor_assets = w.vendor_assets
          /\ repo_dir = w.repo_dir
          /\ dts = w.dts
          /\ mk = w.mk
          /\ overlay_dir = w.overlay_dir
          /\ artifacts = w.artifacts
    \* a machine that lacks rsync and xz is started on the empty workspace
    \* and on the built tree
    /\ (path_tools # REQUIRED_TOOLS =>
            (artifacts > 0 \/ ~(backup_target \/ repo_dir)))
    /\ bfiles = [i \in 1..NFiles |-> IF backup_target THEN "old" ELSE "absent"]
    /\ manifest = [exists |-> backup_target,
                   lines |-> IF backup_target THEN ManifestLines(bfiles) ELSE <<>>]
    /\ tmpdirs = {}
    /\ idx = 0
    /\ step = 0
    /\ inFull = FALSE
    /\ overlay_tmp = 0
    /\ cur = 0
    /\ inHandler = FALSE
    /\ inAtexit = FALSE
    /\ exitCode = -1
    /\ choices = 0
    /\ signals = 0
    /\ procs = 0
    /\ failures = 0
    /\ started = <<>>
    /\ failedAt = 0
    /\ displayed = <<>>
    /\ registered = <<>>
    /\ removed = <<>>
    /\ closes = 0
    /\ logRaised = 0
    /\ sumAtStart = 0
    /\ lastOutcome = "none"
    /\ runKind = "none"
    /\ calls = <<>>
    /\ origin = NoRecipe

\* the interpreter is about to call main()
Init ==
    /\ Constructed
    /\ pc = "main"

(***************************************************************************)
(* main() and show_menu()                                                  *)
(***************************************************************************)
engineVars == <<summary, started, failedAt, sumAtStart, lastOutcome>>
stepLocals == <<idx, overlay_tmp, procs, failures, cleanup_paths,
                registered>>

\* MainUnknown returning 0
MainUnknownZero ==
    /\ pc = "main"
    /\ argv # ""
    /\ argv \notin Keywords
    /\ LogLines(<< Entry("ERR", "Unknown action", argv) >>)
    /\ pc' = "finalize"
    /\ exitCode' = 0
    /\ UNCHANGED <<envVars, fsVars, sigVars, engineVars, stepLocals, step,
                   inFull, runKind, choices, displayed>>

\* main(): a keyword that is not in commands
MainUnknown ==
    /\ pc = "main"
    /\ argv # ""
    /\ argv \notin Keywords
    /\ LogLines(<< Entry("ERR", "Unknown action", argv) >>)
    /\ pc' = "finalize"
    /\ exitCode' = 1
    /\ UNCHANGED <<envVars, fsVars, sigVars, engineVars, stepLocals, step,
                   inFull, runKind, choices, displayed>>

\* main(): action() for a recognised keyword
MainAction ==
    /\ pc = "main"
    /\ argv \in Keywords
    /\ IF commands[argv] = 0
       THEN /\ pc' = "full_begin"
            /\ step' = 0
            /\ runKind' = runKind
       ELSE /\ pc' = "step_begin"
            /\ step' = commands[argv]
            /\ runKind' = "step"
    /\ UNCHANGED <<envVars, fsVars, sigVars, engineVars, stepLocals, inFull,
                   choices, displayed, log, exitCode>>

\* main(): no keyword, manager.show_menu()
MainMenu ==
    /\ pc = "main"
    /\ argv = ""
    /\ pc' = "prompt"
    /\ UNCHANGED <<envVars, fsVars, sigVars, engineVars, stepLocals, step,
                   inFull, runKind, choices, displayed, log, exitCode>>

\* show_menu(): choice "f" is run_full_workflow() then show_summary()
MenuFull ==
    /\ pc = "prompt"
    /\ choices < MaxChoices
    /\ choices' = choices + 1
    /\ pc' = "full_begin"
    /\ UNCHANGED <<envVars, fsVars, sigVars, engineVars, stepLocals, step,
                   inFull, runKind, displayed, log, exitCode>>

\* show_menu(): a choice that is not a digit string
MenuInvalid ==
    /\ pc = "prompt"
    /\ choices < MaxChoices
    /\ choices' = choices + 1
    /\ LogLines(<< Entry("WARN", "Invalid selection", "") >>)
    /\ pc' = "prompt"
    /\ UNCHANGED <<envVars, fsVars, sigVars, engineVars, stepLocals, step,
                   inFull, runKind, displayed, exitCode>>

\* show_menu(): a digit string outside 0..9 falls through both tests
MenuIgnored ==
    /\ pc = "prompt"
    /\ choices < MaxChoices
    /\ choices' = choices + 1
    /\ pc' = "prompt"
    /\ UNCHANGED <<envVars, fsVars, sigVars, engineVars, stepLocals, step,
                   inFull, runKind, displayed, log, exitCode>>

\* show_menu(): choice 1..9 calls the step; nothing follows the call
MenuStep(k) ==
    /\ pc = "prompt"
    /\ choices < MaxChoices
    /\ choices' = choices + 1
    /\ pc' = "step_begin"
    /\ step' = k
    /\ runKind' = "step"
    /\ UNCHANGED <<envVars, fsVars, sigVars, engineVars, stepLocals, inFull,
                   displayed, log, exitCode>>

\* show_menu(): choice 0 is sys.exit(0)
MenuExit ==
    /\ pc = "prompt"
    /\ pc' = "finalize"
    /\ exitCode' = 0
    /\ UNCHANGED <<envVars, fsVars, sigVars, engineVars, stepLocals, step,
                   inFull, runKind, choices, displayed, log>>

(***************************************************************************)
(* run_full_workflow() and show_summary()                                  *)
(***************************************************************************)
\* FullBegin without self.summary.clear()
FullBeginKeep ==
    /\ pc = "full_begin"
    /\ summary' = summary
    /\ started' = <<>>
    /\ failedAt' = 0
    /\ sumAtStart' = 0
    /\ lastOutcome' = "none"
    /\ runKind' = "full"
    /\ inFull' = TRUE
    /\ step' = 1
    /\ pc' = "step_begin"
    /\ UNCHANGED <<envVars, fsVars, sigVars, stepLocals, choices, displayed,
                   log, exitCode>>

\* self.summary.clear() and the first iteration of the loop
FullBegin ==
    /\ pc = "full_begin"
    /\ summary' = <<>>
    /\ started' = <<>>
    /\ failedAt' = 0
    /\ sumAtStart' = 0
    /\ lastOutcome' = "none"
    /\ runKind' = "full"
    /\ inFull' = TRUE
    /\ step' = 1
    /\ pc' = "step_begin"
    /\ UNCHANGED <<envVars, fsVars, sigVars, stepLocals, choices, displayed,
                   log, exitCode>>

\* FullExcept with continue in place of break
FullExceptContinue ==
    /\ pc = "full_except"
    /\ LogLines(<< Entry("ERR", "Step failed", steps[step]) >>)
    /\ failedAt' = step
    /\ IF step < NSteps
       THEN /\ inFull' = TRUE
            /\ step' = step + 1
            /\ pc' = "step_begin"
       ELSE /\ inFull' = FALSE
            /\ step' = 0
            /\ pc' = "show"
    /\ UNCHANGED <<envVars, fsVars, sigVars, stepLocals, summary, started,
                   sumAtStart, lastOutcome, runKind, choices, displayed,
                   exitCode>>

\* except Exception: log the step name and break; the caller of
\* run_full_workflow then shows the summary
FullExcept ==
    /\ pc = "full_except"
    /\ LogLines(<< Entry("ERR", "Step failed", steps[step]) >>)
    /\ failedAt' = step
    /\ inFull' = FALSE
    /\ step' = 0
    /\ pc' = "show"
    /\ UNCHANGED <<envVars, fsVars, sigVars, stepLocals, summary, started,
                   sumAtStart, lastOutcome, runKind, choices, displayed,
                   exitCode>>

\* show_summary() as called by main() and by the "f" branch of show_menu();
\* main() then returns 0
ShowSummary ==
    /\ pc = "show"
    /\ displayed' = Append(displayed, summary)
    /\ IF argv # ""
       THEN /\ pc' = "finalize"
            /\ exitCode' = 0
       ELSE /\ pc' = "prompt"
            /\ exitCode' = exitCode
    /\ UNCHANGED <<envVars, fsVars, sigVars, engineVars, stepLocals, step,
                   inFull, runKind, choices, log>>

\* an exception leaves main(): traceback, exit status 1
Uncaught ==
    /\ pc = "uncaught"
    /\ pc' = "finalize"
    /\ exitCode' = 1
    /\ UNCHANGED <<envVars, fsVars, sigVars, engineVars, stepLocals, step,
                   inFull, runKind, choices, displayed, log>>

\* the first statement of every step: its intent message
StepBegin ==
    /\ pc = "step_begin"
    /\ LogLines(<< Entry("INFO", "intent", steps[step]) >>)
    /\ started' = Append(started, step)
    /\ sumAtStart' = Len(summary)
    /\ lastOutcome' = "none"
    /\ pc' = StepBody[step]
    /\ UNCHANGED <<envVars, fsVars, sigVars, stepLocals, summary, failedAt,
                   step, inFull, runKind, choices, displayed, exitCode>>

(***************************************************************************)
(* Command runners                                                         *)
(***************************************************************************)
stepFrame == <<envVars, sigVars, started, failedAt, sumAtStart, runKind,
               choices, displayed, exitCode>>

\* exit statuses an external command can end with
ReturnCodes == {0, 1}

\* _run_command: the lines it logs
RunCommandLog ==
    IF dry_run
    THEN << Entry("INFO", "Executing command", ""),
            Entry(" OK ", "Dry-run mode: command skipped.", "") >>
    ELSE << Entry("INFO", "Executing command", "") >>

\* _run_command: returncode of the CompletedProcess it returns
RunCommandCode(rc) == IF dry_run THEN 0 ELSE rc

\* _run_command: subprocess.run(check=check) raises CalledProcessError
RunCommandRaises(check, interactive, rc) ==
    /\ ~dry_run
    /\ ~interactive
    /\ check
    /\ rc # 0

\* _run_command: external processes started
RunCommandProcs == IF dry_run THEN procs ELSE procs + 1

\* the statuses the next command may end with: in dry-run no process runs
Codes == IF dry_run \/ failures >= MaxFailures THEN {0} ELSE ReturnCodes

\* bookkeeping of one command handed to subprocess.run
Ran(rc) ==
    /\ procs' = RunCommandProcs
    /\ failures' = IF rc # 0 THEN failures + 1 ELSE failures

\* _run_command_to_file: the destination after open("wb") and the process
CaptureContent(rc) == IF rc = 0 THEN "new" ELSE "empty"

\* _run_command_to_file: subprocess.run(check=not allow_failure) raises
CaptureRaises(allow_failure, rc) == ~allow_failure /\ rc # 0

\* _run_command_to_file: the lines it logs when it returns
CaptureLog(allow_failure, rc) ==
    IF dry_run
    THEN << Entry("INFO", "Streaming command output", ""),
            Entry(" OK ", "Dry-run mode: would capture command output", "") >>
    ELSE IF rc # 0 /\ allow_failure
         THEN << Entry("INFO", "Streaming command output", ""),
                 Entry("WARN", "Command returned non-zero; kept existing data", "") >>
         ELSE << Entry("INFO", "Streaming command output", ""),
                 Entry(" OK ", "Captured output", "") >>

(***************************************************************************)
(* Step 1: preflight_checks                                                *)
(***************************************************************************)
\* Preflight raising without the FAILED record
PreflightNoRecord ==
    /\ pc = "preflight"
    /\ LET missing == REQUIRED_TOOLS \ path_tools IN
       IF missing # {}
       THEN /\ LogLines(<< Entry("ERR", "Missing required tools", "") >>)
            /\ summary' = summary
            /\ StepRaise
       ELSE /\ LogLines(<< Entry(" OK ", "All required tooling is available.", "") >>)
            /\ _record_summary("Preflight checks", "OK")
            /\ StepReturn
    /\ UNCHANGED <<stepFrame, fsVars, stepLocals>>

Preflight ==
    /\ pc = "preflight"
    /\ LET missing == REQUIRED_TOOLS \ path_tools IN
       IF missing # {}
       THEN /\ LogLines(<< Entry("ERR", "Missing required tools", "") >>)
            /\ _record_summary("Preflight checks", "FAILED")
            /\ StepRaise
       ELSE /\ LogLines(<< Entry(" OK ", "All required tooling is available.", "") >>)
            /\ _record_summary("Preflight checks", "OK")
            /\ StepReturn
    /\ UNCHANGED <<stepFrame, fsVars, stepLocals>>

(***************************************************************************)
(* Step 2: backup_important_files                                          *)
(***************************************************************************)
\* backup_target.mkdir(parents=True, exist_ok=True), executed in dry-run too
BackupMkdir ==
    /\ pc = "backup_mkdir"
    /\ backup_target' = TRUE
    /\ idx' = 1
    /\ StepGoto("backup_xfer")
    /\ UNCHANGED <<stepFrame, summary, log, bfiles, manifest, vendor_assets,
                   repo_dir, dts, mk, overlay_dir, tmpdirs, artifacts,
                   overlay_tmp, procs, failures, cleanup_paths, registered>>

\* one _run_command_to_file(command, destination) of the two loops;
\* allow_failure keeps its default
BackupTransfer(rc) ==
    /\ pc = "backup_xfer"
    /\ rc \in Codes
    /\ IF dry_run
       THEN /\ LogLines(CaptureLog(FALSE, rc))
            /\ UNCHANGED <<bfiles, procs, failures>>
            /\ IF idx < NTransfers
               THEN idx' = idx + 1 /\ StepGoto("backup_xfer")
               ELSE idx' = 0 /\ StepGoto("backup_sums")
       ELSE /\ bfiles' = [bfiles EXCEPT ![idx] = CaptureContent(rc)]
            /\ Ran(rc)
            /\ IF CaptureRaises(FALSE, rc)
               THEN /\ LogLines(<< Entry("INFO", "Streaming command output", "") >>)
                    /\ idx' = idx
                    /\ StepRaise
               ELSE /\ LogLines(CaptureLog(FALSE, rc))
                    /\ IF idx < NTransfers
                       THEN idx' = idx + 1 /\ StepGoto("backup_xfer")
                       ELSE idx' = 0 /\ StepGoto("backup_sums")
    /\ UNCHANGED <<stepFrame, summary, backup_target, manifest, vendor_assets,
                   repo_dir, dts, mk, overlay_dir, tmpdirs, artifacts,
                   overlay_tmp, cleanup_paths, registered>>

\* BackupSums opening the manifest for appending
BackupSumsAppend ==
    /\ pc = "backup_sums"
    /\ IF dry_run
       THEN /\ LogLines(<< Entry(" OK ", "Dry-run mode: would generate SHA256 sums", ""),
                           Entry(" OK ", "Backups stored", "") >>)
            /\ manifest' = manifest
       ELSE /\ manifest' = [exists |-> TRUE,
                            lines |-> manifest.lines \o ManifestLines(bfiles)]
            /\ LogLines(<< Entry(" OK ", "Wrote backup checksums", ""),
                           Entry(" OK ", "Backups stored", "") >>)
    /\ _record_summary("Backup", "OK")
    /\ StepReturn
    /\ UNCHANGED <<stepFrame, stepLocals, backup_target, bfiles, vendor_assets,
                   repo_dir, dts, mk, overlay_dir, tmpdirs, artifacts>>

\* the checksum manifest, the closing message and the record
BackupSums ==
    /\ pc = "backup_sums"
    /\ IF dry_run
       THEN /\ LogLines(<< Entry(" OK ", "Dry-run mode: would generate SHA256 sums", ""),
                           Entry(" OK ", "Backups stored", "") >>)
            /\ manifest' = manifest
       ELSE /\ manifest' = [exists |-> TRUE, lines |-> ManifestLines(bfiles)]
            /\ LogLines(<< Entry(" OK ", "Wrote backup checksums", ""),
                           Entry(" OK ", "Backups stored", "") >>)
    /\ _record_summary("Backup", "OK")
    /\ StepReturn
    /\ UNCHANGED <<stepFrame, stepLocals, backup_target, bfiles, vendor_assets,
                   repo_dir, dts, mk, overlay_dir, tmpdirs, artifacts>>

(***************************************************************************)
(* Step 3: fetch_vendor_blobs                                              *)
(***************************************************************************)
\* self.vendor_assets_dir.mkdir(parents=True, exist_ok=True), in dry-run too
VendorMkdir ==
    /\ pc = "vendor_mkdir"
    /\ vendor_assets' = TRUE
    /\ idx' = 1
    /\ StepGoto("vendor_xfer")
    /\ UNCHANGED <<stepFrame, summary, log, backup_target, bfiles, manifest,
                   repo_dir, dts, mk, overlay_dir, tmpdirs, artifacts,
                   overlay_tmp, procs, failures, cleanup_paths, registered>>

\* VendorTransfer treating every blob as mandatory
VendorTransferAllMandatory(rc) ==
    /\ pc = "vendor_xfer"
    /\ rc \in Codes
    /\ IF dry_run
       THEN /\ LogLines(<< Entry("INFO", "Syncing", ""),
                           Entry(" OK ", "Dry-run mode: would transfer", "") >>)
            /\ UNCHANGED <<procs, failures, summary>>
            /\ IF idx < NTargets
               THEN idx' = idx + 1 /\ StepGoto("vendor_xfer")
               ELSE idx' = 0 /\ StepGoto("vendor_end")
       ELSE /\ Ran(rc)
            /\ IF rc # 0
               THEN /\ LogLines(<< Entry("INFO", "Syncing", ""),
                                   Entry("ERR", "Failed to fetch", "") >>)
                    /\ _record_summary("Vendor assets", "FAILED")
                    /\ idx' = idx
                    /\ StepRaise
               ELSE /\ LogLines(<< Entry("INFO", "Syncing", ""),
                                   Entry(" OK ", "Fetched", "") >>)
                    /\ summary' = summary
                    /\ IF idx < NTargets
                       THEN idx' = idx + 1 /\ StepGoto("vendor_xfer")
                       ELSE idx' = 0 /\ StepGoto("vendor_end")
    /\ UNCHANGED <<stepFrame, fsVars, overlay_tmp, cleanup_paths,
                   registered>>

\* one iteration of the loop over targets
VendorTransfer(rc) ==
    /\ pc = "vendor_xfer"
    /\ rc \in Codes
    /\ IF dry_run
       THEN /\ LogLines(<< Entry("INFO", "Syncing", ""),
                           Entry(" OK ", "Dry-run mode: would transfer", "") >>)
            /\ UNCHANGED <<procs, failures, summary>>
            /\ IF idx < NTargets
               THEN idx' = idx + 1 /\ StepGoto("vendor_xfer")
               ELSE idx' = 0 /\ StepGoto("vendor_end")
       ELSE /\ Ran(rc)
            /\ IF rc # 0 /\ ~targets[idx]
               THEN /\ LogLines(<< Entry("INFO", "Syncing", ""),
                                   Entry("ERR", "Failed to fetch", "") >>)
                    /\ _record_summary("Vendor assets", "FAILED")
                    /\ idx' = idx
                    /\ StepRaise
               ELSE /\ LogLines(<< Entry("INFO", "Syncing", ""),
                                   IF rc # 0
                                   THEN Entry("WARN", "Failed to fetch", "Continuing; file marked optional.")
                                   ELSE Entry(" OK ", "Fetched", "") >>)
                    /\ summary' = summary
                    /\ IF idx < NTargets
                       THEN idx' = idx + 1 /\ StepGoto("vendor_xfer")
                       ELSE idx' = 0 /\ StepGoto("vendor_end")
    /\ UNCHANGED <<stepFrame, fsVars, overlay_tmp, cleanup_paths,
                   registered>>

VendorEnd ==
    /\ pc = "vendor_end"
    /\ LogLines(<< Entry(" OK ", "Vendor assets available", "") >>)
    /\ _record_summary("Vendor assets", "OK")
    /\ StepReturn
    /\ UNCHANGED <<stepFrame, fsVars, stepLocals>>

(***************************************************************************)
(* Step 4: clone_or_update_repo                                            *)
(***************************************************************************)
\* generic.mk as the remote branch tip may hold it: absent, or without the stanza
RemoteRecipes == {NoRecipe, Recipe(0, FALSE)}

\* repo_exists = self.repo_dir.is_dir()
SyncCheck ==
    /\ pc = "sync_check"
    /\ IF repo_dir
       THEN /\ LogLines(<< Entry("INFO", "Repository exists; fetching updates.", "") >>)
            /\ StepGoto("sync_fetch")
       ELSE /\ log' = log
            /\ StepGoto("sync_clone")
    /\ UNCHANGED <<stepFrame, fsVars, stepLocals, summary>>

\* what a step of clone_or_update_repo that talks to the remote leaves alone
syncFrame == <<argv, dry_run, path_tools, calls, sigVars, started, failedAt,
               sumAtStart, runKind, choices, displayed, exitCode>>

\* git fetch --all: origin/<branch> takes the tip the remote has now
SyncFetch(rc, recipe) ==
    /\ pc = "sync_fetch"
    /\ rc \in Codes
    /\ recipe \in RemoteRecipes
    /\ LogLines(RunCommandLog)
    /\ Ran(rc)
    /\ IF RunCommandRaises(TRUE, FALSE, rc)
       THEN /\ origin' = origin
            /\ StepRaise
       ELSE /\ origin' = IF dry_run THEN origin ELSE recipe
            /\ StepGoto("sync_reset")
    /\ (dry_run \/ rc # 0 => recipe = Recipe(0, FALSE))
    /\ UNCHANGED <<syncFrame, fsVars, summary, idx, overlay_tmp, cleanup_paths, registered>>

\* SyncReset leaving the working tree as it is
SyncResetSoft(rc) ==
    /\ pc = "sync_reset"
    /\ rc \in Codes
    /\ LogLines(RunCommandLog)
    /\ Ran(rc)
    /\ mk' = mk
    /\ IF RunCommandRaises(TRUE, FALSE, rc)
       THEN StepRaise
       ELSE StepGoto("sync_placeholder")
    /\ UNCHANGED <<stepFrame, summary, idx, overlay_tmp, cleanup_paths, registered, backup_target, bfiles, manifest,
                   vendor_assets, repo_dir, dts, overlay_dir, tmpdirs, artifacts>>

\* git reset --hard origin/<branch>: tracked files take the fetched content
SyncReset(rc) ==
    /\ pc = "sync_reset"
    /\ rc \in Codes
    /\ LogLines(RunCommandLog)
    /\ Ran(rc)
    /\ IF RunCommandRaises(TRUE, FALSE, rc)
       THEN /\ mk' = mk
            /\ StepRaise
       ELSE /\ mk' = IF dry_run THEN mk ELSE origin
            /\ StepGoto("sync_placeholder")
    /\ UNCHANGED <<stepFrame, summary, idx, overlay_tmp, cleanup_paths, registered, backup_target, bfiles, manifest,
                   vendor_assets, repo_dir, dts, overlay_dir, tmpdirs, artifacts>>

\* git clone --branch <branch> <url> <repo_dir>
SyncClone(rc, recipe) ==
    /\ pc = "sync_clone"
    /\ rc \in Codes
    /\ recipe \in RemoteRecipes
    /\ LogLines(RunCommandLog)
    /\ Ran(rc)
    /\ IF RunCommandRaises(TRUE, FALSE, rc)
       THEN /\ UNCHANGED <<repo_dir, mk, origin>>
            /\ StepRaise
       ELSE /\ repo_dir' = (repo_dir \/ ~dry_run)
            /\ mk' = IF dry_run THEN mk ELSE recipe
            /\ origin' = IF dry_run THEN origin ELSE recipe
            /\ StepGoto("sync_placeholder")
    /\ (dry_run \/ rc # 0 => recipe = Recipe(0, FALSE))
    /\ UNCHANGED <<syncFrame, summary, idx, overlay_tmp, cleanup_paths, registered, backup_target, bfiles, manifest,
                   vendor_assets, dts, overlay_dir, tmpdirs, artifacts>>

\* SyncPlaceholder without the placeholder directory
SyncPlaceholderSkip ==
    /\ pc = "sync_placeholder"
    /\ UNCHANGED <<log, repo_dir>>
    /\ StepGoto("sync_feeds")
    /\ UNCHANGED <<stepFrame, summary, idx, overlay_tmp, procs, failures,
                   cleanup_paths, registered, backup_target, bfiles, manifest,
                   vendor_assets, dts, mk, overlay_dir, tmpdirs, artifacts>>

\* if self.dry_run and not self.repo_dir.exists(): self.repo_dir.mkdir(...)
SyncPlaceholder ==
    /\ pc = "sync_placeholder"
    /\ IF dry_run /\ ~repo_dir
       THEN /\ LogLines(<< Entry("WARN", "Dry-run mode: creating placeholder repository directory", "") >>)
            /\ repo_dir' = TRUE
               ELSE UNCHANGED <<log, repo_dir>>
    /\ StepGoto("sync_feeds")
    /\ UNCHANGED <<stepFrame, summary, idx, overlay_tmp, procs, failures, cleanup_paths,
                   registered, backup_target, bfiles, manifest, vendor_assets,
                   dts, mk, overlay_dir, tmpdirs, artifacts>>

\* ./scripts/feeds update -a, or the dry-run branch that ends the step
SyncFeedsUpdate(rc) ==
    /\ pc = "sync_feeds"
    /\ rc \in Codes
    /\ IF dry_run
       THEN /\ LogLines(<< Entry(" OK ", "Dry-run mode: would run feeds update and install", ""),
                           Entry(" OK ", "Repository synchronised.", "") >>)
            /\ UNCHANGED <<procs, failures>>
            /\ _record_summary("Repository sync", "OK")
            /\ StepReturn
       ELSE /\ LogLines(RunCommandLog)
            /\ Ran(rc)
            /\ summary' = summary
            /\ IF RunCommandRaises(TRUE, FALSE, rc)
               THEN StepRaise
               ELSE StepGoto("sync_install")
    /\ UNCHANGED <<stepFrame, fsVars, idx, overlay_tmp, cleanup_paths, registered>>

\* ./scripts/feeds install -a, the closing message and the record
SyncFeedsInstall(rc) ==
    /\ pc = "sync_install"
    /\ rc \in Codes
    /\ Ran(rc)
    /\ IF RunCommandRaises(TRUE, FALSE, rc)
       THEN /\ LogLines(RunCommandLog)
            /\ summary' = summary
            /\ StepRaise
       ELSE /\ LogLines(RunCommandLog \o << Entry(" OK ", "Repository synchronised.", "") >>)
            /\ _record_summary("Repository sync", "OK")
            /\ StepReturn
    /\ UNCHANGED <<stepFrame, fsVars, idx, overlay_tmp, cleanup_paths, registered>>

(***************************************************************************)
(* Step 5: apply_custom_configs                                            *)
(***************************************************************************)
\* RepoCheck without the test
RepoCheckSkipped(label, next) ==
    /\ pc = label
    /\ StepGoto(next)
    /\ UNCHANGED <<stepFrame, fsVars, stepLocals, summary, log>>

\* raise FileNotFoundError when the repository directory is missing; shared
\* by the five steps that start with this test
RepoCheck(label, next) ==
    /\ pc = label
    /\ IF ~repo_dir THEN StepRaise ELSE StepGoto(next)
    /\ UNCHANGED <<stepFrame, fsVars, stepLocals, summary, log>>

ConfigsCheck == RepoCheck("configs_check", "configs_dts")

\* ConfigsDts leaving the device-tree file as it found it
ConfigsDtsKeep ==
    /\ pc = "configs_dts"
    /\ LogLines(<< Entry(" OK ", "RA74 DTS already up to date.", "") >>)
    /\ dts' = dts
    /\ StepGoto("configs_mk")
    /\ UNCHANGED <<stepFrame, stepLocals, summary, backup_target, bfiles,
                   manifest, vendor_assets, repo_dir, mk, overlay_dir, tmpdirs,
                   artifacts>>

\* the device-tree file is rewritten when its text differs from dts_content
ConfigsDts ==
    /\ pc = "configs_dts"
    /\ IF dry_run
       THEN /\ LogLines(<< Entry(" OK ", "Dry-run mode: would ensure DTS", "") >>)
            /\ dts' = dts
       ELSE IF dts # "fixed"
            THEN /\ dts' = "fixed"
                 /\ LogLines(<< Entry(" OK ", "Updated RA74 DTS description.", "") >>)
            ELSE /\ dts' = dts
                 /\ LogLines(<< Entry(" OK ", "RA74 DTS already up to date.", "") >>)
    /\ StepGoto("configs_mk")
    /\ UNCHANGED <<stepFrame, stepLocals, summary, backup_target, bfiles,
                   manifest, vendor_assets, repo_dir, mk, overlay_dir, tmpdirs,
                   artifacts>>

\* ConfigsRecipe appending the stanza without looking for the device name
ConfigsRecipeAlways ==
    /\ pc = "configs_mk"
    /\ IF dry_run
       THEN /\ LogLines(<< Entry(" OK ", "Dry-run mode: would ensure generic.mk", ""),
                           Entry(" OK ", "Custom configuration overlays applied.", "") >>)
            /\ mk' = mk
            /\ _record_summary("Custom configs", "OK")
            /\ StepReturn
       ELSE IF ~mk.exists
            THEN /\ UNCHANGED <<log, mk, summary>>
                 /\ StepRaise
            ELSE /\ mk' = [mk EXCEPT !.stanzas = IF @ < 2 THEN @ + 1 ELSE @]
                 /\ LogLines(<< Entry(" OK ", "Appended RA74 device stanza to generic.mk.", ""),
                                Entry(" OK ", "Custom configuration overlays applied.", "") >>)
                 /\ _record_summary("Custom configs", "OK")
                 /\ StepReturn
    /\ UNCHANGED <<stepFrame, stepLocals, backup_target, bfiles, manifest,
                   vendor_assets, repo_dir, dts, overlay_dir, tmpdirs, artifacts>>

\* the recipe file: absent raises, otherwise the stanza is appended once
ConfigsRecipe ==
    /\ pc = "configs_mk"
    /\ IF dry_run
       THEN /\ LogLines(<< Entry(" OK ", "Dry-run mode: would ensure generic.mk", ""),
                           Entry(" OK ", "Custom configuration overlays applied.", "") >>)
            /\ mk' = mk
            /\ _record_summary("Custom configs", "OK")
            /\ StepReturn
       ELSE IF ~mk.exists
            THEN /\ UNCHANGED <<log, mk, summary>>
                 /\ StepRaise
            ELSE /\ IF ~HasDeviceName(mk)
                    THEN /\ mk' = [mk EXCEPT !.stanzas = @ + 1]
                         /\ LogLines(<< Entry(" OK ", "Appended RA74 device stanza to generic.mk.", ""),
                                        Entry(" OK ", "Custom configuration overlays applied.", "") >>)
                    ELSE /\ mk' = mk
                         /\ LogLines(<< Entry(" OK ", "RA74 device stanza already present in generic.mk.", ""),
                                        Entry(" OK ", "Custom configuration overlays applied.", "") >>)
                 /\ _record_summary("Custom configs", "OK")
                 /\ StepReturn
    /\ UNCHANGED <<stepFrame, stepLocals, backup_target, bfiles, manifest,
                   vendor_assets, repo_dir, dts, overlay_dir, tmpdirs, artifacts>>

(***************************************************************************)
(* Step 6: prepare_overlay_directory                                       *)
(***************************************************************************)
SeqRange(q) == {q[n] : n \in 1..Len(q)}

SetMax(S) == IF S = {} THEN 0 ELSE CHOOSE m \in S : \A x \in S : x <= m

\* tempfile.mkdtemp returns a name no existing or earlier directory has
FreshTmp == 1 + SetMax(tmpdirs \cup SeqRange(registered))

OverlayCheck == RepoCheck("overlay_check", "overlay_mkdtemp")

\* overlay_tmp = Path(tempfile.mkdtemp(prefix="overlay_")), in dry-run too
OverlayMkdtemp ==
    /\ pc = "overlay_mkdtemp"
    /\ overlay_tmp' = FreshTmp
    /\ tmpdirs' = tmpdirs \cup {FreshTmp}
    /\ StepGoto("overlay_register")
    /\ UNCHANGED <<stepFrame, summary, log, idx, procs, failures, cleanup_paths,
                   registered, backup_target, bfiles, manifest, vendor_assets,
                   repo_dir, dts, mk, overlay_dir, artifacts>>

\* self.cleanup_paths.append(overlay_tmp)
OverlayRegister ==
    /\ pc = "overlay_register"
    /\ cleanup_paths' = Append(cleanup_paths, overlay_tmp)
    /\ registered' = Append(registered, overlay_tmp)
    /\ StepGoto("overlay_stage")
    /\ UNCHANGED <<stepFrame, fsVars, summary, log, idx, procs, failures, overlay_tmp>>

\* the defaults and lib/firmware are written below overlay_tmp
OverlayStage ==
    /\ pc = "overlay_stage"
    /\ IF dry_run
       THEN /\ LogLines(<< Entry(" OK ", "Dry-run mode: would create overlay file", "") >>)
            /\ StepGoto("overlay_end")
       ELSE /\ IF vendor_assets
               THEN log' = log
               ELSE LogLines(<< Entry("WARN", "Vendor assets directory missing; using placeholders.", "") >>)
            /\ StepGoto("overlay_rmtree")
    /\ UNCHANGED <<stepFrame, fsVars, stepLocals, summary>>

\* if self.overlay_dir.exists(): shutil.rmtree(self.overlay_dir)
OverlayRmtree ==
    /\ pc = "overlay_rmtree"
    /\ overlay_dir' = "absent"
    /\ StepGoto("overlay_copytree")
    /\ UNCHANGED <<stepFrame, stepLocals, summary, log, backup_target, bfiles,
                   manifest, vendor_assets, repo_dir, dts, mk, tmpdirs,
                   artifacts>>

\* shutil.copytree(overlay_tmp, self.overlay_dir, dirs_exist_ok=True)
OverlayCopytree ==
    /\ pc = "overlay_copytree"
    /\ overlay_dir' = "new"
    /\ StepGoto("overlay_end")
    /\ UNCHANGED <<stepFrame, stepLocals, summary, log, backup_target, bfiles,
                   manifest, vendor_assets, repo_dir, dts, mk, tmpdirs,
                   artifacts>>

OverlayEnd ==
    /\ pc = "overlay_end"
    /\ LogLines(<< Entry(" OK ", "Overlay prepared", "") >>)
    /\ _record_summary("Overlay", "OK")
    /\ StepReturn
    /\ UNCHANGED <<stepFrame, fsVars, stepLocals>>

(***************************************************************************)
(* Step 7: run_menuconfig                                                  *)
(***************************************************************************)
MenuconfigCheck == RepoCheck("menuconfig_check", "menuconfig_run")

\* _run_command(["make", "menuconfig"], interactive=True) and the test of
\* result.returncode
MenuconfigRun(rc) ==
    /\ pc = "menuconfig_run"
    /\ rc \in Codes
    /\ Ran(rc)
    /\ IF RunCommandRaises(TRUE, TRUE, rc)
       THEN /\ LogLines(RunCommandLog)
            /\ summary' = summary
            /\ StepRaise
       ELSE IF RunCommandCode(rc) # 0
            THEN /\ LogLines(RunCommandLog \o << Entry("ERR", "make menuconfig failed.", "") >>)
                 /\ _record_summary("menuconfig", "FAILED")
                 /\ StepRaise
            ELSE /\ LogLines(RunCommandLog \o << Entry(" OK ", "Configuration step completed.", "") >>)
                 /\ _record_summary("menuconfig", "OK")
                 /\ StepReturn
    /\ UNCHANGED <<stepFrame, fsVars, idx, overlay_tmp, cleanup_paths, registered>>

(***************************************************************************)
(* Step 8: build_firmware                                                  *)
(***************************************************************************)
BuildCheck == RepoCheck("build_check", "build_run")

\* BuildRun recording OK before the command has run
BuildRunRecordFirst(rc, made) ==
    /\ pc = "build_run"
    /\ rc \in Codes
    /\ made \in BOOLEAN
    /\ (dry_run \/ rc # 0 \/ artifacts > 0 => ~made)
    /\ Ran(rc)
    /\ artifacts' = IF made THEN 1 ELSE artifacts
    /\ _record_summary("Build", "OK")
    /\ IF RunCommandRaises(TRUE, FALSE, rc)
       THEN /\ LogLines(RunCommandLog)
            /\ StepRaise
       ELSE /\ LogLines(RunCommandLog \o << Entry(" OK ", "Build completed successfully.", "") >>)
            /\ StepReturn
    /\ UNCHANGED <<stepFrame, idx, overlay_tmp, cleanup_paths,
                   registered, backup_target, bfiles, manifest, vendor_assets,
                   repo_dir, dts, mk, overlay_dir, tmpdirs>>

\* _run_command(["make", "-jN"], interactive=False) with check left at its
\* default, and the test of result.returncode; a successful make may leave
\* an image that matches the artifact glob
BuildRun(rc, made) ==
    /\ pc = "build_run"
    /\ rc \in Codes
    /\ made \in BOOLEAN
    /\ (dry_run \/ rc # 0 \/ artifacts > 0 => ~made)
    /\ Ran(rc)
    /\ artifacts' = IF made THEN 1 ELSE artifacts
    /\ IF RunCommandRaises(TRUE, FALSE, rc)
       THEN /\ LogLines(RunCommandLog)
            /\ summary' = summary
            /\ StepRaise
       ELSE IF RunCommandCode(rc) # 0
            THEN /\ LogLines(RunCommandLog \o << Entry("ERR", "Build failed.", "") >>)
                 /\ _record_summary("Build", "FAILED")
                 /\ StepRaise
            ELSE /\ LogLines(RunCommandLog \o << Entry(" OK ", "Build completed successfully.", "") >>)
                 /\ _record_summary("Build", "OK")
                 /\ StepReturn
    /\ UNCHANGED <<stepFrame, idx, overlay_tmp, cleanup_paths,
                   registered, backup_target, bfiles, manifest, vendor_assets,
                   repo_dir, dts, mk, overlay_dir, tmpdirs>>

(***************************************************************************)
(* Step 9: verify_artifacts                                                *)
(***************************************************************************)
VerifyCheck == RepoCheck("verify_check", "verify_glob")

\* the files the artifact glob matches, in the order glob yields them, and
\* their modification times: the second image was built after the first
Candidates == <<"image-a.bin", "image-b.bin">>
Mtime == <<10, 20>>

\* latest taken as the first candidate
latestFirst(n) == Candidates[1]

\* latest = max(candidates, key=lambda p: p.stat().st_mtime), for the first
\* n candidates
latest(n) ==
    Candidates[CHOOSE i \in 1..n : \A j \in 1..n : Mtime[j] <= Mtime[i]]

\* checksum: sixty-four zeros in dry-run, else self._sha256(latest)
checksum(file) == IF dry_run THEN <<"zeros", "">> ELSE _sha256(file)

\* VerifyGlob without the dry-run branch for an empty candidate list
VerifyGlobNoDry ==
    /\ pc = "verify_glob"
    /\ IF artifacts = 0
       THEN /\ LogLines(<< Entry("ERR", "No artefacts found", "") >>)
            /\ _record_summary("Artefact verification", "FAILED")
            /\ StepRaise
       ELSE /\ LogLines(<< Entry(" OK ", "Latest artefact", latest(artifacts)),
                           Entry(" OK ", "SHA256", checksum(latest(artifacts))) >>)
            /\ _record_summary("Artefact verification", "OK")
            /\ StepReturn
    /\ UNCHANGED <<stepFrame, fsVars, stepLocals>>

\* candidates = list(self.repo_dir.glob(glob_expr)) and what follows
VerifyGlob ==
    /\ pc = "verify_glob"
    /\ IF artifacts = 0
       THEN IF dry_run
            THEN /\ LogLines(<< Entry("WARN", "Dry-run mode: no artefacts present; using placeholder checksum.", "") >>)
                 /\ _record_summary("Artefact verification", "OK (simulated)")
                 /\ StepReturn
            ELSE /\ LogLines(<< Entry("ERR", "No artefacts found", "") >>)
                 /\ _record_summary("Artefact verification", "FAILED")
                 /\ StepRaise
       ELSE /\ LogLines(<< Entry(" OK ", "Latest artefact", latest(artifacts)),
                           Entry(" OK ", "SHA256", checksum(latest(artifacts))) >>)
            /\ _record_summary("Artefact verification", "OK")
            /\ StepReturn
    /\ UNCHANGED <<stepFrame, fsVars, stepLocals>>

(***************************************************************************)
(* Process exit, _cleanup and _handle_signal                               *)
(***************************************************************************)
fsRest == <<backup_target, bfiles, manifest, vendor_assets, repo_dir, dts, mk,
            overlay_dir, artifacts>>
cleanFrame == <<envVars, fsRest, summary, started, failedAt, sumAtStart,
                lastOutcome, runKind, choices, displayed, step, inFull, idx,
                overlay_tmp, procs, failures, registered>>

\* the interpreter leaves main() and runs the atexit hook, self._cleanup
Finalize ==
    /\ pc = "finalize"
    /\ inAtexit' = TRUE
    /\ pc' = "cl_loop"
    /\ UNCHANGED <<cleanFrame, cleanup_paths, tmpdirs, log, handle_closed, cur,
                   removed, closes, logRaised, inHandler, signals, exitCode>>

\* _cleanup: while self.cleanup_paths: path = self.cleanup_paths.pop()
CleanupPop ==
    /\ pc = "cl_loop"
    /\ IF cleanup_paths # <<>>
       THEN /\ cur' = cleanup_paths[Len(cleanup_paths)]
            /\ cleanup_paths' = SubSeq(cleanup_paths, 1, Len(cleanup_paths) - 1)
            /\ pc' = "cl_rm"
       ELSE /\ UNCHANGED <<cur, cleanup_paths>>
            /\ pc' = "cl_info"
    /\ UNCHANGED <<cleanFrame, tmpdirs, log, handle_closed, removed, closes,
                   logRaised, inHandler, inAtexit, signals, exitCode>>

\* _cleanup: if path.exists(): shutil.rmtree(path, ignore_errors=True)
CleanupRemove ==
    /\ pc = "cl_rm"
    /\ IF cur \in tmpdirs
       THEN /\ tmpdirs' = tmpdirs \ {cur}
            /\ removed' = Append(removed, cur)
       ELSE UNCHANGED <<tmpdirs, removed>>
    /\ pc' = "cl_loop"
    /\ UNCHANGED <<cleanFrame, cleanup_paths, cur, log, handle_closed, closes,
                   logRaised, inHandler, inAtexit, signals, exitCode>>

\* an exception leaves _cleanup or _handle_signal: the atexit machinery
\* prints and drops it, anywhere else it ends the process with status 1
HookRaise ==
    /\ inHandler' = FALSE
    /\ IF inAtexit
       THEN /\ pc' = "exiting"
            /\ exitCode' = exitCode
       ELSE /\ pc' = "finalize"
            /\ exitCode' = 1

\* _cleanup: self.logger.info("Temporary artefacts cleaned up.");
\* LogWriter._write raises ValueError on a closed handle
CleanupInfo ==
    /\ pc = "cl_info"
    /\ IF handle_closed
       THEN /\ logRaised' = logRaised + 1
            /\ log' = log
            /\ HookRaise
       ELSE /\ LogLines(<< Entry("INFO", "Temporary artefacts cleaned up.", "") >>)
            /\ pc' = "cl_close"
            /\ UNCHANGED <<logRaised, inHandler, exitCode>>
    /\ UNCHANGED <<cleanFrame, cleanup_paths, cur, tmpdirs, handle_closed,
                   removed, closes, inAtexit, signals>>

\* _cleanup: self.logger.close(), LogWriter.close
CleanupClose ==
    /\ pc = "cl_close"
    /\ IF ~handle_closed
       THEN /\ handle_closed' = TRUE
            /\ closes' = closes + 1
       ELSE UNCHANGED <<handle_closed, closes>>
    /\ pc' = IF inHandler THEN "sig_exit" ELSE "exiting"
    /\ UNCHANGED <<cleanFrame, cleanup_paths, cur, tmpdirs, log, removed,
                   logRaised, inHandler, inAtexit, signals, exitCode>>

\* SignalExit as it would be if sys.exit raised an exception that the
\* except clause of run_full_workflow catches
SignalExitCaught ==
    /\ pc = "sig_exit"
    /\ IF inFull /\ ~inAtexit
       THEN /\ inHandler' = FALSE
            /\ pc' = "full_except"
            /\ exitCode' = exitCode
       ELSE HookRaise
    /\ UNCHANGED <<cleanFrame, cleanup_paths, cur, tmpdirs, log, handle_closed,
                   removed, closes, logRaised, inAtexit, signals>>

\* _handle_signal: sys.exit(1); SystemExit is not caught by the except
\* clause of run_full_workflow, and is dropped inside an exit hook
SignalExit ==
    /\ pc = "sig_exit"
    /\ HookRaise
    /\ UNCHANGED <<cleanFrame, cleanup_paths, cur, tmpdirs, log, handle_closed,
                   removed, closes, logRaised, inAtexit, signals>>

\* the exit hooks are done, the process ends
Terminate ==
    /\ pc = "exiting"
    /\ pc' = "done"
    /\ UNCHANGED <<cleanFrame, cleanup_paths, cur, tmpdirs, log, handle_closed,
                   removed, closes, logRaised, inHandler, inAtexit, signals,
                   exitCode>>

\* SIGINT or SIGTERM is delivered: _handle_signal starts with logger.warn
\* and what it interrupted is never resumed
Signal ==
    /\ pc # "done"
    /\ signals < MaxSignals
    /\ signals' = signals + 1
    /\ IF handle_closed
       THEN /\ logRaised' = logRaised + 1
            /\ log' = log
            /\ HookRaise
       ELSE /\ LogLines(<< Entry("WARN", "Received signal", "") >>)
            /\ inHandler' = TRUE
            /\ pc' = "cl_loop"
            /\ UNCHANGED <<logRaised, exitCode>>
    /\ UNCHANGED <<cleanFrame, cleanup_paths, cur, tmpdirs, handle_closed,
                   removed, closes, inAtexit>>

(***************************************************************************)
(* The helper methods called on their own: _run_command_to_file with       *)
(* either value of allow_failure, and _write_file                          *)
(***************************************************************************)
helperFrame == <<argv, dry_run, path_tools, origin, summary, cleanup_paths,
                 handle_closed, manifest, vendor_assets, mk, overlay_dir,
                 tmpdirs, artifacts, idx, step, inFull, overlay_tmp, cur,
                 inHandler, inAtexit, exitCode, choices, signals, started,
                 failedAt, displayed, registered, removed, closes, logRaised,
                 sumAtStart, lastOutcome, runKind>>

\* a constructed BuildManager on which only helper methods are called
InitHelpers ==
    /\ Constructed
    /\ argv = ""
    /\ path_tools = REQUIRED_TOOLS
    /\ pc = "helper"

\* texts handed to _write_file
Contents == {"fixed", "other"}

\* destinations handed to _write_file: the device-tree file below repo_dir,
\* and the first backup file, which is not below repo_dir
WriteTargets == {"dts", "backup"}

\* self._run_command_to_file(command, backup_target / name, allow_failure)
HelperCapture(i, allow_failure, rc) ==
    /\ pc = "helper"
    /\ Len(calls) < MaxCalls
    /\ rc \in (IF dry_run THEN {0} ELSE ReturnCodes)
    /\ IF dry_run
       THEN /\ LogLines(CaptureLog(allow_failure, rc))
            /\ UNCHANGED <<backup_target, bfiles, procs, failures>>
            /\ pc' = "helper"
       ELSE /\ backup_target' = TRUE
            /\ bfiles' = [bfiles EXCEPT ![i] = CaptureContent(rc)]
            /\ Ran(rc)
            /\ IF CaptureRaises(allow_failure, rc)
               THEN /\ LogLines(<< Entry("INFO", "Streaming command output", "") >>)
                    /\ pc' = "helper_raised"
               ELSE /\ LogLines(CaptureLog(allow_failure, rc))
                    /\ pc' = "helper"
    /\ calls' = Append(calls, [fn |-> "_run_command_to_file", dest |-> i,
                               allow_failure |-> allow_failure, rc |-> rc,
                               content |-> "", before |-> bfiles[i],
                               wrote |-> ~dry_run,
                               raised |-> ~dry_run /\ CaptureRaises(allow_failure, rc)])
    /\ UNCHANGED <<helperFrame, repo_dir, dts>>

\* self._write_file(path, content); path.relative_to(self.repo_dir) raises
\* ValueError, after the write, for a path that is not below repo_dir
HelperWrite(target, content) ==
    /\ pc = "helper"
    /\ Len(calls) < MaxCalls
    /\ IF dry_run
       THEN /\ LogLines(<< Entry(" OK ", "Dry-run mode: would write file", "") >>)
            /\ UNCHANGED <<repo_dir, dts, backup_target, bfiles>>
            /\ pc' = "helper"
       ELSE IF target = "dts"
            THEN /\ repo_dir' = TRUE
                 /\ dts' = content
                 /\ LogLines(<< Entry(" OK ", "Wrote", "") >>)
                 /\ UNCHANGED <<backup_target, bfiles>>
                 /\ pc' = "helper"
            ELSE /\ backup_target' = TRUE
                 /\ bfiles' = [bfiles EXCEPT ![1] = content]
                 /\ UNCHANGED <<repo_dir, dts, log>>
                 /\ pc' = "helper_raised"
    /\ calls' = Append(calls, [fn |-> "_write_file",
                               dest |-> IF target = "dts" THEN 0 ELSE 1,
                               allow_failure |-> FALSE, rc |-> 0,
                               content |-> content,
                               before |-> IF target = "dts" THEN dts ELSE bfiles[1],
                               wrote |-> ~dry_run,
                               raised |-> ~dry_run /\ target # "dts"])
    /\ UNCHANGED <<helperFrame, procs, failures>>

NextHelpers ==
    \/ \E i \in 1..NTransfers, allow_failure \in BOOLEAN, rc \in ReturnCodes :
          HelperCapture(i, allow_failure, rc)
    \/ \E target \in WriteTargets, content \in Contents :
          HelperWrite(target, content)

SpecHelpers == InitHelpers /\ [][NextHelpers]_vars

(***************************************************************************)
(* A menu session in which the operator only selects runs: several full    *)
(* or single-step runs in one process, then 0                              *)
(***************************************************************************)
\* the single steps the operator of such a session selects
SessionSteps == 1..NSteps

\* show_menu() is entered by a process started without a keyword
InitSession ==
    /\ Constructed
    /\ argv = ""
    /\ pc = "main"

\* show_menu(): choice "f"
SessionFull ==
    /\ pc = "prompt"
    /\ choices < MaxSelections
    /\ choices' = choices + 1
    /\ pc' = "full_begin"
    /\ UNCHANGED <<envVars, fsVars, sigVars, engineVars, stepLocals, step,
                   inFull, runKind, displayed, log, exitCode>>

\* show_menu(): choice 1..9
SessionStep(k) ==
    /\ pc = "prompt"
    /\ choices < MaxSelections
    /\ k \in SessionSteps
    /\ choices' = choices + 1
    /\ pc' = "step_begin"
    /\ step' = k
    /\ runKind' = "step"
    /\ UNCHANGED <<envVars, fsVars, sigVars, engineVars, stepLocals, inFull,
                   displayed, log, exitCode>>

NextSession ==
    \/ MainMenu
    \/ SessionFull
    \/ \E k \in 1..NSteps : SessionStep(k)
    \/ MenuExit
    \/ FullBegin
    \/ FullExcept
    \/ ShowSummary
    \/ Uncaught
    \/ StepBegin
    \/ Preflight
    \/ BackupMkdir
    \/ \E rc \in ReturnCodes : BackupTransfer(rc)
    \/ BackupSums
    \/ VendorMkdir
    \/ \E rc \in ReturnCodes : VendorTransfer(rc)
    \/ VendorEnd
    \/ SyncCheck
    \/ \E rc \in ReturnCodes, recipe \in RemoteRecipes : SyncFetch(rc, recipe)
    \/ \E rc \in ReturnCodes : SyncReset(rc)
    \/ \E rc \in ReturnCodes, recipe \in RemoteRecipes : SyncClone(rc, recipe)
    \/ SyncPlaceholder
    \/ \E rc \in ReturnCodes : SyncFeedsUpdate(rc)
    \/ \E rc \in ReturnCodes : SyncFeedsInstall(rc)
    \/ ConfigsCheck
    \/ ConfigsDts
    \/ ConfigsRecipe
    \/ OverlayCheck
    \/ OverlayMkdtemp
    \/ OverlayRegister
    \/ OverlayStage
    \/ OverlayRmtree
    \/ OverlayCopytree
    \/ OverlayEnd
    \/ MenuconfigCheck
    \/ \E rc \in ReturnCodes : MenuconfigRun(rc)
    \/ BuildCheck
    \/ \E rc \in ReturnCodes, made \in BOOLEAN : BuildRun(rc, made)
    \/ VerifyCheck
    \/ VerifyGlob
    \/ Finalize
    \/ CleanupPop
    \/ CleanupRemove
    \/ CleanupInfo
    \/ CleanupClose
    \/ Terminate

SpecSession == InitSession /\ [][NextSession]_vars

(***************************************************************************)
(* Specification                                                           *)
(***************************************************************************)
Next ==
    \/ MainUnknown
    \/ MainAction
    \/ MainMenu
    \/ MenuFull
    \/ MenuInvalid
    \/ MenuIgnored
    \/ \E k \in 1..NSteps : MenuStep(k)
    \/ MenuExit
    \/ FullBegin
    \/ FullExcept
    \/ ShowSummary
    \/ Uncaught
    \/ StepBegin
    \/ Preflight
    \/ BackupMkdir
    \/ \E rc \in ReturnCodes : BackupTransfer(rc)
    \/ BackupSums
    \/ VendorMkdir
    \/ \E rc \in ReturnCodes : VendorTransfer(rc)
    \/ VendorEnd
    \/ SyncCheck
    \/ \E rc \in ReturnCodes, recipe \in RemoteRecipes : SyncFetch(rc, recipe)
    \/ \E rc \in ReturnCodes : SyncReset(rc)
    \/ \E rc \in ReturnCodes, recipe \in RemoteRecipes : SyncClone(rc, recipe)
    \/ SyncPlaceholder
    \/ \E rc \in ReturnCodes : SyncFeedsUpdate(rc)
    \/ \E rc \in ReturnCodes : SyncFeedsInstall(rc)
    \/ ConfigsCheck
    \/ ConfigsDts
    \/ ConfigsRecipe
    \/ OverlayCheck
    \/ OverlayMkdtemp
    \/ OverlayRegister
    \/ OverlayStage
    \/ OverlayRmtree
    \/ OverlayCopytree
    \/ OverlayEnd
    \/ MenuconfigCheck
    \/ \E rc \in ReturnCodes : MenuconfigRun(rc)
    \/ BuildCheck
    \/ \E rc \in ReturnCodes, made \in BOOLEAN : BuildRun(rc, made)
    \/ VerifyCheck
    \/ VerifyGlob
    \/ Finalize
    \/ CleanupPop
    \/ CleanupRemove
    \/ CleanupInfo
    \/ CleanupClose
    \/ SignalExit
    \/ Terminate
    \/ Signal

Spec == Init /\ [][Next]_vars

TypeOK ==
    /\ pc \in {"main", "prompt", "full_begin", "full_except", "show", "uncaught",
               "step_begin", "finalize", "cl_loop", "cl_rm", "cl_info",
               "cl_close", "sig_exit", "exiting", "done", "helper",
               "helper_raised"}
              \cup SeqRange(StepBody)
              \cup {"backup_xfer", "backup_sums", "vendor_xfer", "vendor_end",
                    "sync_fetch", "sync_reset", "sync_clone", "sync_placeholder",
                    "sync_feeds", "sync_install", "configs_dts", "configs_mk",
                    "overlay_mkdtemp", "overlay_register", "overlay_stage",
                    "overlay_rmtree", "overlay_copytree", "overlay_end",
                    "menuconfig_run", "build_run", "verify_glob"}
    /\ step \in 0..NSteps
    /\ exitCode \in {-1, 0, 1}
    /\ mk.stanzas \in 0..2
    /\ origin \in RemoteRecipes
    /\ Len(summary) <= NSteps * MaxChoices + NSteps

\* code of the main thread only runs while the log handle is open
MainLogOpen ==
    (~inHandler /\ ~inAtexit /\ pc \notin {"finalize"}) => ~handle_closed

(***************************************************************************)
(* Properties                                                              *)
(***************************************************************************)
Last(q) == q[Len(q)]

Reverse(q) == [n \in 1..Len(q) |-> q[Len(q) + 1 - n]]

\* 1, 2, ..., n
UpTo(n) == [j \in 1..n |-> j]

\* the OK records of steps 1..n
OkRecords(n) == [j \in 1..n |-> <<StepLabel[j], "OK">>]

NonFailure == {"OK", "OK (simulated)"}

\* positions inside the body of a step
StepPcs ==
    SeqRange(StepBody)
    \cup {"backup_xfer", "backup_sums", "vendor_xfer", "vendor_end",
          "sync_fetch", "sync_reset", "sync_clone", "sync_placeholder",
          "sync_feeds", "sync_install", "configs_dts", "configs_mk",
          "overlay_mkdtemp", "overlay_register", "overlay_stage",
          "overlay_rmtree", "overlay_copytree", "overlay_end",
          "menuconfig_run", "build_run", "verify_glob"}

\* steps that append a FAILED record before they raise inside a full run
RecordsFailure == {1, 3, 7, 9}

\* C1: in a full-workflow run the steps are started in the fixed order
\* 1, 2, ..., 9; once a step has raised, the except clause logs the step's
\* name, the run is back in its caller, no later step has been started and
\* no later step has a summary record.
C1_FullRunOrder ==
    runKind = "full" =>
        /\ started = UpTo(Len(started))
        /\ (inFull /\ pc \in StepPcs => Len(started) = step)
        /\ (pc = "show" /\ failedAt = 0 => started = UpTo(NSteps))
        /\ (lastOutcome = "raised" /\ signals = 0 /\ pc # "full_except"
                => failedAt = Last(started))
        /\ (failedAt # 0 =>
                /\ ~inFull
                /\ Len(started) = failedAt
                /\ Entry("ERR", "Step failed", steps[failedAt]) \in SeqRange(log)
                /\ \A n \in 1..Len(summary) :
                      \E j \in 1..failedAt : summary[n][1] = StepLabel[j])

\* a full run that stopped at step 4 has returned to its caller
C1_Witness ==
    /\ runKind = "full"
    /\ pc = "show"
    /\ failedAt = 4
    /\ started = UpTo(4)

\* C2 as stated: after a full run whose first failing step is k the summary
\* is exactly the k-1 OK records of steps 1..k-1, with no record for step k.
C2_NoRecordForFailingStep ==
    (runKind = "full" /\ pc = "show" /\ failedAt # 0)
        => summary = OkRecords(failedAt - 1)

\* C2 amended: after a full run whose first failing step is k the summary
\* starts with the k-1 OK records of steps 1..k-1; it ends there when k is
\* Backup, Repo Sync, Apply Config, Prepare Overlay or Build, and is followed
\* by exactly one FAILED record for step k when k is Preflight, Vendor Fetch,
\* Interactive Configure or Verify Artifacts; steps k+1..9 have no record.
C2_StopOnFailure ==
    (runKind = "full" /\ pc = "show" /\ failedAt # 0) =>
        LET k == failedAt IN
        /\ Len(summary) >= k - 1
        /\ SubSeq(summary, 1, k - 1) = OkRecords(k - 1)
        /\ IF k \in RecordsFailure
           THEN /\ Len(summary) = k
                /\ summary[k] = <<StepLabel[k], "FAILED">>
           ELSE Len(summary) = k - 1

\* a full run stopped by preflight shows the single FAILED record
C2_Witness ==
    /\ runKind = "full"
    /\ pc = "show"
    /\ failedAt = 1
    /\ summary = << <<"Preflight checks", "FAILED">> >>

\* C3 as stated: every step invocation that has returned or raised has
\* appended exactly one summary record.
C3_OneRecordPerExecution ==
    lastOutcome # "none" => Len(summary) = sumAtStart + 1

\* C4 as stated: in dry-run no action of a step starts a process or changes
\* the file system.
C4_DryRunNoSideEffect ==
    [][(dry_run /\ pc \in StepPcs) => (fsVars' = fsVars /\ procs' = procs)]_vars

\* C5 as stated: in dry-run every step invocation returns normally and has
\* appended exactly one record with a non-failure status, whatever the
\* starting state.
C5_DryRunAlwaysSucceeds ==
    (dry_run /\ lastOutcome # "none") =>
        /\ lastOutcome = "returned"
        /\ Len(summary) = sumAtStart + 1
        /\ Last(summary)[2] \in NonFailure

\* what a step tests before it does anything else
Precondition(k) ==
    CASE k = 1 -> REQUIRED_TOOLS \subseteq path_tools
      [] k \in 5..9 -> repo_dir
      [] OTHER -> TRUE

\* C5 amended: in dry-run a step returns normally and appends exactly one
\* record with a non-failure status when its own precondition holds (every
\* required tool resolvable for Preflight, the repository directory present
\* for Apply Config, Prepare Overlay, Interactive Configure, Build and Verify
\* Artifacts; none for Backup, Vendor Fetch and Repo Sync); when it does not
\* hold the step raises, Preflight after a FAILED record and the other five
\* without a record.
C5_DryRunSucceedsWhenPreconditionHolds ==
    (dry_run /\ lastOutcome # "none") =>
        LET k == Last(started) IN
        IF Precondition(k)
        THEN /\ lastOutcome = "returned"
             /\ Len(summary) = sumAtStart + 1
             /\ Last(summary)[1] = StepLabel[k]
             /\ Last(summary)[2] \in NonFailure
        ELSE /\ lastOutcome = "raised"
             /\ IF k = 1
                THEN /\ Len(summary) = sumAtStart + 1
                     /\ Last(summary) = <<StepLabel[1], "FAILED">>
                ELSE Len(summary) = sumAtStart

\* dry-run Verify Artifacts with no artefact has returned with the
\* simulated OK
C5_Witness ==
    /\ dry_run
    /\ lastOutcome = "returned"
    /\ started # <<>>
    /\ Last(started) = 9
    /\ Len(summary) = sumAtStart + 1
    /\ Last(summary) = <<"Artefact verification", "OK (simulated)">>

\* C6: the keyword full in dry-run with every required tool resolvable and
\* no signal ends, from any workspace and so from one without the
\* repository directory, with all nine steps started in order, none failed,
\* nine non-failure records in step order and exit status 0.
C6_DryRunFull ==
    (argv = "full" /\ dry_run /\ REQUIRED_TOOLS \subseteq path_tools
        /\ signals = 0 /\ pc = "done") =>
        /\ started = UpTo(NSteps)
        /\ failedAt = 0
        /\ Len(summary) = NSteps
        /\ \A n \in 1..NSteps :
              /\ summary[n][1] = StepLabel[n]
              /\ summary[n][2] \in NonFailure
        /\ displayed = << summary >>
        /\ exitCode = 0

\* such a run that found no repository directory (the placeholder was made)
\* has ended
C6_Witness ==
    /\ argv = "full"
    /\ dry_run
    /\ signals = 0
    /\ pc = "done"
    /\ Entry("WARN", "Dry-run mode: creating placeholder repository directory", "")
          \in SeqRange(log)
    /\ Len(summary) = NSteps
    /\ exitCode = 0

C8_SummaryShownAfterRun ==
    (runKind # "none" /\ signals = 0 /\ pc \in {"prompt", "done"}) =>
        /\ displayed # <<>>
        /\ Last(displayed) = summary

\* C9 as stated: the log handle is closed only once every registered path
\* is off the list and off the disk, and at process end the paths have been
\* removed in reverse order of registration.
C9_CleanupDrainsAll ==
    /\ handle_closed =>
          /\ cleanup_paths = <<>>
          /\ SeqRange(registered) \cap tmpdirs = {}
    /\ pc = "done" =>
          /\ handle_closed
          /\ removed = Reverse(registered)

\* C10 as stated: however often cleanup runs, no logging call raises and
\* the handle is closed at most once.
C10_CleanupIdempotent ==
    /\ logRaised = 0
    /\ closes <= 1

\* positions of _cleanup, of the end of _handle_signal and of process exit
ExitPcs == {"cl_loop", "cl_rm", "cl_info", "cl_close", "sig_exit", "finalize",
            "exiting", "done"}

\* a step had been entered and had neither returned nor raised when the
\* first signal arrived
SignalledInStep == signals > 0 /\ started # <<>> /\ lastOutcome = "none"

\* C11: once a signal has been delivered while a step was executing, in a
\* full run or a single-step run, the warning is in the log, control is in
\* _cleanup or on the way out of the process and never again in a step, in
\* the except clause of run_full_workflow, in show_summary or at the menu; no
\* further step is started, no record is added and nothing is displayed;
\* the process ends with exit status 1, the log handle closed and the
\* cleanup list empty, and when no second signal cut the cleanup short every
\* registered path is off the disk.
C11_SignalTerminates ==
    /\ [](SignalledInStep =>
            /\ Entry("WARN", "Received signal", "") \in SeqRange(log)
            /\ pc \in ExitPcs
            /\ exitCode \in {-1, 1}
            /\ (pc = "done" =>
                    /\ exitCode = 1
                    /\ handle_closed
                    /\ cleanup_paths = <<>>
                    /\ (signals = 1 => SeqRange(registered) \cap tmpdirs = {})))
    /\ [][SignalledInStep =>
            /\ started' = started
            /\ summary' = summary
            /\ displayed' = displayed
            /\ failedAt' = failedAt]_vars

\* a full run interrupted in a step after the staging directory was
\* registered has ended with status 1 and the directory removed
C11_Witness ==
    /\ runKind = "full"
    /\ inFull
    /\ signals = 1
    /\ lastOutcome = "none"
    /\ pc = "done"
    /\ exitCode = 1
    /\ registered # <<>>
    /\ removed = registered

\* the content the file named by the last helper call holds now
HelperFile(c) == IF c.dest = 0 THEN dts ELSE bfiles[c.dest]

\* C12 as stated: after _run_command_to_file was called with allow_failure
\* set, outside dry-run, and the command exited non-zero, the destination
\* holds the content it had before the call, the last log line is the
\* warning and the call has returned.
C12_FailureKeepsContent ==
    calls # <<>> =>
        LET c == Last(calls) IN
        (c.fn = "_run_command_to_file" /\ c.allow_failure /\ c.rc # 0 /\ ~dry_run)
            => /\ HelperFile(c) = c.before
               /\ Last(log) = Entry("WARN", "Command returned non-zero; kept existing data", "")
               /\ ~c.raised

\* C13 as stated: outside dry-run, a _write_file whose destination already
\* held the desired content performed no write, and after any _write_file
\* the destination holds the desired content.
C13_WriteOnlyWhenDifferent ==
    calls # <<>> =>
        LET c == Last(calls) IN
        (c.fn = "_write_file" /\ ~dry_run)
            => /\ HelperFile(c) = c.content
               /\ (c.before = c.content => ~c.wrote)

\* positions inside apply_custom_configs
ConfigsPcs == {"configs_check", "configs_dts", "configs_mk"}

\* Apply Config has just returned normally outside dry-run
ConfigsApplied ==
    /\ ~dry_run
    /\ started # <<>>
    /\ Last(started) = 5
    /\ lastOutcome = "returned"

\* the tree as apply_custom_configs sees it when it has nothing to do
Patched == dts = "fixed" /\ mk.exists /\ HasDeviceName(mk)

\* C14 as stated: a successful Apply Config outside dry-run leaves the
\* device-tree file fixed and a recipe holding the stanza, once when the
\* recipe held no stanza before, and an Apply Config on such a tree writes
\* neither file.
C14_StanzaOnceIfAbsent ==
    /\ [](ConfigsApplied => (dts = "fixed" /\ mk.exists /\ mk.stanzas >= 1))
    /\ [][(pc = "configs_mk" /\ ~dry_run /\ mk.exists /\ mk.stanzas = 0
              /\ pc' # pc) => mk'.stanzas = 1]_vars
    /\ [][(pc \in ConfigsPcs /\ ~dry_run /\ dts = "fixed" /\ mk.exists
              /\ mk.stanzas >= 1) => (dts' = dts /\ mk' = mk)]_vars

\* C14 amended: a successful Apply Config outside dry-run leaves the
\* device-tree file equal to the fixed text and a recipe containing the text
\* Device/xiaomi_redmi_ra74; every Apply Config on such a tree returns
\* normally and writes neither file, so the tree is the same after the
\* first and after every later run; the recipe step, unless a signal
\* interrupts it, appends exactly one
\* stanza when the recipe did not contain that text (so once when the text
\* was initially absent) and nothing when it did, including when the text
\* occurs without the stanza.
C14_ApplyConfigIdempotent ==
    /\ [](ConfigsApplied => Patched)
    /\ [][(pc \in ConfigsPcs /\ ~dry_run /\ Patched) =>
              /\ dts' = dts
              /\ mk' = mk
              /\ (pc = "configs_mk" /\ signals' = signals
                     => lastOutcome' = "returned")]_vars
    /\ [][(pc = "configs_mk" /\ ~dry_run /\ mk.exists /\ pc' # pc
              /\ signals' = signals) =>
              /\ mk'.named = mk.named
              /\ mk'.stanzas = IF HasDeviceName(mk) THEN mk.stanzas
                                ELSE mk.stanzas + 1]_vars

\* Apply Config was selected twice in a row: the first run appended the
\* stanza, the second found it and has returned
C14_Witness ==
    /\ ~dry_run
    /\ started = <<5, 5>>
    /\ lastOutcome = "returned"
    /\ mk = Recipe(1, FALSE)
    /\ dts = "fixed"
    /\ Entry(" OK ", "Appended RA74 device stanza to generic.mk.", "") \in SeqRange(log)
    /\ Last(summary) = <<"Custom configs", "OK">>
    /\ Len(summary) = 2

\* the warning of fetch_vendor_blobs for an optional blob
OptionalWarning == Entry("WARN", "Failed to fetch", "Continuing; file marked optional.")

\* C15: outside dry-run, a transfer of fetch_vendor_blobs that exits
\* non-zero on the mandatory blob appends the FAILED record and raises, with
\* the loop left at that blob so that no later blob is transferred; one that
\* exits non-zero on an optional blob logs the warning, appends no record
\* and goes on to the next blob, or to the end of the loop after the last
\* one; the end of the loop appends the OK record and returns, so a step
\* whose mandatory transfer succeeded ends with OK whatever the optional
\* ones did.
C15_VendorFetch ==
    /\ [][(pc = "vendor_xfer" /\ ~dry_run /\ signals' = signals) =>
              /\ procs' = procs + 1
              /\ IF failures' > failures /\ ~targets[idx]
                 THEN /\ summary' = Append(summary, <<"Vendor assets", "FAILED">>)
                      /\ lastOutcome' = "raised"
                      /\ pc' \in {"full_except", "uncaught"}
                      /\ idx' = idx
                 ELSE /\ summary' = summary
                      /\ lastOutcome' = "none"
                      /\ (failures' > failures => Last(log') = OptionalWarning)
                      /\ IF idx < NTargets
                         THEN pc' = "vendor_xfer" /\ idx' = idx + 1
                         ELSE pc' = "vendor_end"]_vars
    /\ [][(pc = "vendor_end" /\ signals' = signals) =>
              /\ summary' = Append(summary, <<"Vendor assets", "OK">>)
              /\ lastOutcome' = "returned"]_vars
    /\ []((~dry_run /\ started # <<>> /\ Last(started) = 3
              /\ lastOutcome = "raised") =>
              /\ idx = 1
              /\ Last(summary) = <<"Vendor assets", "FAILED">>)

\* Vendor Fetch has returned with the OK record after an optional blob
\* failed
C15_Witness ==
    /\ ~dry_run
    /\ signals = 0
    /\ started # <<>>
    /\ Last(started) = 3
    /\ lastOutcome = "returned"
    /\ OptionalWarning \in SeqRange(log)
    /\ Last(summary) = <<"Vendor assets", "OK">>

\* C16 as stated: outside dry-run, a transfer of the Backup step that
\* exits non-zero is caught inside the step: a warning is logged, the step
\* has neither returned nor raised and goes on to the next transfer or to
\* the checksum manifest.
C16_BackupTransferBestEffort ==
    [][(pc = "backup_xfer" /\ ~dry_run /\ signals' = signals
          /\ failures' > failures) =>
          /\ Last(log')[1] = "WARN"
          /\ lastOutcome' = "none"
          /\ pc' \in {"backup_xfer", "backup_sums"}]_vars

\* C17 as stated: no step of the program takes the overlay directory to
\* anything but the tree it held before or the complete staged tree.
C17_OverlayAtomic ==
    [][overlay_dir' \in {overlay_dir, "new"}]_vars

\* Backup has just returned normally outside dry-run
BackupDone ==
    /\ ~dry_run
    /\ started # <<>>
    /\ Last(started) = 2
    /\ lastOutcome = "returned"

\* C18: when Backup has returned normally outside dry-run, the manifest
\* exists; every file of the backup directory other than the manifest has
\* exactly one line, made of the SHA-256 digest of its present content and
\* its name; every line is the line of such a file, so none names the
\* manifest and none is left from an earlier run; and the lines are in
\* increasing order of file name.
C18_ManifestExact ==
    BackupDone =>
        LET lines == manifest.lines
            files == {i \in DOMAIN bfiles : bfiles[i] # "absent"}
        IN  /\ manifest.exists
            /\ \A i \in files :
                  /\ Cardinality({n \in 1..Len(lines) : lines[n][2] = i}) = 1
                  /\ <<_sha256(bfiles[i]), i>> \in SeqRange(lines)
            /\ \A n \in 1..Len(lines) :
                  /\ lines[n][2] \in files
                  /\ lines[n][1] = _sha256(bfiles[lines[n][2]])
            /\ \A n, m \in 1..Len(lines) :
                  n < m => NameKey(lines[n][2]) < NameKey(lines[m][2])

\* Backup has returned in a directory that already held a manifest and a
\* file no transfer writes: the new manifest has a line for every file
C18_Witness ==
    /\ BackupDone
    /\ signals = 0
    /\ bfiles[NFiles] = "old"
    /\ bfiles[1] = "new"
    /\ Len(manifest.lines) = NFiles
    /\ manifest.lines[1] = <<_sha256("new"), 3>>

\* position in steps of the step that writes records under this name
LabelIndex(label) == CHOOSE j \in 1..NSteps : StepLabel[j] = label

\* C19: whatever ran before in the process, run_full_workflow begins by
\* emptying the summary and calling step 1; during and after the run the
\* steps started are 1, 2, ... without a gap, every record of the summary
\* belongs to a step started in this run and the records are in step order
\* with at most one per step, so none is left from an earlier run; a run in
\* which no step failed has started all nine steps, and what show_summary
\* prints after the run is this summary.
C19_FullRunStartsFresh ==
    /\ [][(pc = "full_begin" /\ signals' = signals) =>
              /\ summary' = <<>>
              /\ step' = 1
              /\ pc' = "step_begin"]_vars
    /\ [][(pc = "show" /\ signals' = signals) =>
              displayed' = Append(displayed, summary)]_vars
    /\ [](runKind = "full" =>
              /\ started = UpTo(Len(started))
              /\ \A n \in 1..Len(summary) :
                    LabelIndex(summary[n][1]) \in SeqRange(started)
              /\ \A n, m \in 1..Len(summary) :
                    n < m => LabelIndex(summary[n][1]) < LabelIndex(summary[m][1])
              /\ (pc = "show" /\ failedAt = 0 =>
                    /\ started = UpTo(NSteps)
                    /\ Len(summary) = NSteps))

\* a second full run, selected after a full run that stopped at a failing
\* step, has gone through all nine steps
C19_Witness ==
    /\ choices = 2
    /\ Len(displayed) = 1
    /\ Len(displayed[1]) < NSteps
    /\ displayed[1] # <<>>
    /\ runKind = "full"
    /\ pc = "show"
    /\ failedAt = 0
    /\ started = UpTo(NSteps)
    /\ Len(summary) = NSteps

\* C20: a process started with a keyword that is not in commands never
\* starts a step, never appends a record, never starts a command, registers
\* no path, displays nothing and changes nothing in the file system; once
\* main() has run, unless a signal came first, the error line naming the
\* keyword is in the log; and the process ends with exit status 1.
C20_UnknownKeyword ==
    /\ []((argv # "" /\ argv \notin Keywords) =>
              /\ started = <<>>
              /\ summary = <<>>
              /\ displayed = <<>>
              /\ procs = 0
              /\ registered = <<>>
              /\ runKind = "none"
              /\ (pc # "main" /\ signals = 0 =>
                    Entry("ERR", "Unknown action", argv) \in SeqRange(log))
              /\ (pc = "done" => exitCode = 1))
    /\ [][(argv # "" /\ argv \notin Keywords) => fsVars' = fsVars]_vars

\* the keyword bogus has ended with status 1 after the error line
C20_Witness ==
    /\ argv = "bogus"
    /\ signals = 0
    /\ pc = "done"
    /\ exitCode = 1
    /\ Entry("ERR", "Unknown action", "bogus") \in SeqRange(log)

\* position of the match every other match is older than
NewestIndex(n) ==
    CHOOSE i \in 1..n : \A j \in 1..n : j # i => Mtime[j] < Mtime[i]

\* C21: unless a signal interrupts it, verify_artifacts raises without a
\* record when the repository directory is absent, in dry-run and outside
\* it; with the repository present and no match it appends the FAILED
\* record and raises outside dry-run, and appends the simulated-OK record
\* and returns in dry-run; with at least one match it logs the match with
\* the greatest modification time and its checksum (the zeros in dry-run,
\* the SHA-256 digest of that file otherwise), appends the OK record and
\* returns.
C21_VerifyOutcome ==
    /\ [][(pc = "verify_check" /\ signals' = signals) =>
              IF repo_dir
              THEN pc' = "verify_glob" /\ summary' = summary
              ELSE /\ lastOutcome' = "raised"
                   /\ summary' = summary
                   /\ log' = log]_vars
    /\ [][(pc = "verify_glob" /\ signals' = signals) =>
              IF artifacts = 0
              THEN IF dry_run
                   THEN /\ summary' = Append(summary,
                               <<"Artefact verification", "OK (simulated)">>)
                        /\ lastOutcome' = "returned"
                   ELSE /\ summary' = Append(summary,
                               <<"Artefact verification", "FAILED">>)
                        /\ lastOutcome' = "raised"
              ELSE /\ summary' = Append(summary, <<"Artefact verification", "OK">>)
                   /\ lastOutcome' = "returned"
                   /\ log' = log \o
                        << Entry(" OK ", "Latest artefact",
                                 Candidates[NewestIndex(artifacts)]),
                           Entry(" OK ", "SHA256",
                                 IF dry_run THEN <<"zeros", "">>
                                 ELSE _sha256(Candidates[NewestIndex(artifacts)])) >>]_vars
    /\ [](pc = "verify_glob" => repo_dir)

\* Verify Artifacts has returned outside dry-run on a tree with two images:
\* the newer one, which the glob yields second, was reported with its digest
C21_Witness ==
    /\ ~dry_run
    /\ signals = 0
    /\ artifacts = 2
    /\ started # <<>>
    /\ Last(started) = 9
    /\ lastOutcome = "returned"
    /\ Last(log) = Entry(" OK ", "SHA256", _sha256("image-b.bin"))
    /\ Last(summary) = <<"Artefact verification", "OK">>

\* the steps that need the repository, and the position of their test
RepoSteps == 5..9
RepoCheckPcs == {StepBody[k] : k \in RepoSteps}

\* C22: when Apply Config, Prepare Overlay, Interactive Configure, Build or
\* Verify Artifacts is invoked while the repository directory is absent,
\* then, unless a signal interrupts, its intent message and its test change
\* nothing in the file system, start no command, create no temporary
\* directory, register no path and append no record, and the test raises;
\* when the directory is present the test lets the step go on whatever ran
\* before, and no later position of these steps is reached without the
\* directory.
C22_RepoAbsentFailsFirst ==
    /\ [][(pc = "step_begin" /\ step \in RepoSteps /\ signals' = signals) =>
              /\ pc' = StepBody[step]
              /\ fsVars' = fsVars
              /\ procs' = procs
              /\ cleanup_paths' = cleanup_paths
              /\ summary' = summary]_vars
    /\ [][(pc \in RepoCheckPcs /\ signals' = signals) =>
              /\ fsVars' = fsVars
              /\ procs' = procs
              /\ cleanup_paths' = cleanup_paths
              /\ registered' = registered
              /\ summary' = summary
              /\ IF repo_dir
                 THEN lastOutcome' = "none" /\ pc' \in StepPcs
                 ELSE lastOutcome' = "raised" /\ pc' \notin StepPcs]_vars
    /\ []((pc \in StepPcs /\ step \in RepoSteps /\ pc \notin RepoCheckPcs)
              => repo_dir)

\* Prepare Overlay, run on its own in a workspace without the repository,
\* has raised with nothing created
C22_Witness ==
    /\ started = <<6>>
    /\ ~repo_dir
    /\ signals = 0
    /\ lastOutcome = "raised"
    /\ tmpdirs = {}
    /\ registered = <<>>
    /\ procs = 0
    /\ summary = <<>>

\* the repository tree: its directory, the tracked recipe and the untracked
\* files the other steps leave in it
Tree == <<repo_dir, dts, mk, overlay_dir, artifacts>>

\* the positions of clone_or_update_repo that hand a command to _run_command
SyncCommandPcs == {"sync_fetch", "sync_reset", "sync_clone", "sync_feeds",
                   "sync_install"}

\* where clone_or_update_repo goes on after a command that exited with 0;
\* after the last one it returns
SyncAfter(p) ==
    CASE p = "sync_fetch" -> "sync_reset"
      [] p = "sync_reset" -> "sync_placeholder"
      [] p = "sync_clone" -> "sync_placeholder"
      [] p = "sync_feeds" -> "sync_install"
      [] OTHER -> "none"

\* every earlier invocation since the last full run was a Repo Sync that
\* succeeded, and a further Repo Sync is running
SyncAgain ==
    /\ Len(started) >= 2
    /\ \A i \in 1..Len(started) : started[i] = 4
    /\ Len(summary) = Len(started) - 1
    /\ \A i \in 1..Len(summary) : summary[i] = <<"Repository sync", "OK">>
    /\ pc \in StepPcs
    /\ step = 4

\* C23: outside dry-run Repo Sync goes to clone exactly when the repository
\* directory is absent when the step starts and to fetch otherwise; fetch is
\* followed by the hard reset, and either way feeds update and then feeds
\* install follow; each of these steps starts exactly one command, and a
\* command that exits non-zero ends the step by raising, with no record and
\* no further command of the step; after a successful run the tracked recipe
\* is the one at the fetched branch tip; and a further Repo Sync that directly
\* follows successful ones starts on the tree at the tip fetched by the run
\* before it, and as long as the tip it has fetched is still that one (the
\* remote is unchanged) none of its steps changes the tree.
C23_RepoSync ==
    /\ [][(pc = "sync_check" /\ ~dry_run) =>
              /\ pc' = IF repo_dir THEN "sync_fetch" ELSE "sync_clone"
              /\ procs' = procs
              /\ Tree' = Tree]_vars
    /\ [][(pc \in SyncCommandPcs /\ ~dry_run) =>
              /\ procs' = procs + 1
              /\ IF failures' # failures
                 THEN /\ lastOutcome' = "raised"
                      /\ pc' \notin StepPcs
                      /\ summary' = summary
                      /\ Tree' = Tree
                 ELSE IF pc = "sync_install"
                      THEN /\ lastOutcome' = "returned"
                           /\ summary' = Append(summary, <<"Repository sync", "OK">>)
                      ELSE /\ pc' = SyncAfter(pc)
                           /\ summary' = summary]_vars
    /\ [][(pc = "sync_placeholder" /\ ~dry_run) =>
              /\ pc' = "sync_feeds"
              /\ procs' = procs
              /\ Tree' = Tree]_vars
    /\ []((~dry_run /\ started # <<>> /\ Last(started) = 4
              /\ lastOutcome = "returned") => (repo_dir /\ mk = origin))
    /\ []((SyncAgain /\ ~dry_run /\ pc \in {"sync_check", "sync_fetch"})
              => (repo_dir /\ mk = origin))
    /\ [][(SyncAgain /\ ~dry_run /\ origin' = mk) => Tree' = Tree]_vars

\* two Repo Sync runs in a row have succeeded: a clone with its two feeds
\* commands, then fetch, reset and the two feeds commands
C23_Witness ==
    /\ ~dry_run
    /\ started = <<4, 4>>
    /\ lastOutcome = "returned"
    /\ summary = << <<"Repository sync", "OK">>, <<"Repository sync", "OK">> >>
    /\ procs = 7
    /\ mk = origin
    /\ mk = Recipe(0, FALSE)

\* the record a step that returned normally has appended: OK, or for
\* verify_artifacts in dry-run possibly OK (simulated)
SuccessRecord(k, rec) ==
    /\ rec[1] = StepLabel[k]
    /\ \/ rec[2] = "OK"
       \/ rec[2] = "OK (simulated)" /\ k = NSteps /\ dry_run

\* success records of steps 1..j in order, then nothing (failed = FALSE) or
\* at most the FAILED record of step j+1 (failed = TRUE)
SummaryShape(j, failed) ==
    /\ Len(summary) >= j
    /\ \A i \in 1..j : SuccessRecord(i, summary[i])
    /\ \/ Len(summary) = j
       \/ /\ failed
          /\ j < NSteps
          /\ Len(summary) = j + 1
          /\ summary[j + 1] = <<StepLabel[j + 1], "FAILED">>

\* C24: a record with a non-failure status is appended only by the action
\* with which a step returns, one record at a time, so an invocation that
\* has raised has appended no such record; during a full-workflow run the
\* summary holds the success records of the steps that have returned, in
\* step order; once the run is over it holds the success records of steps
\* 1..j followed by nothing when all nine returned, and when step j+1 failed
\* by nothing or by that step's FAILED record alone; the status
\* OK (simulated) is only ever recorded for Artefact verification in dry-run.
C24_SummaryShape ==
    /\ [][(Len(summary') > Len(summary)
              /\ Last(summary')[2] \in NonFailure) =>
              /\ summary' = Append(summary, Last(summary'))
              /\ pc \in StepPcs
              /\ pc' \notin StepPcs
              /\ lastOutcome' = "returned"]_vars
    /\ [](lastOutcome = "raised" =>
              \A i \in (sumAtStart + 1)..Len(summary) :
                  summary[i][2] \notin NonFailure)
    /\ []((runKind = "full" /\ inFull /\ pc \in StepPcs) =>
              SummaryShape(step - 1, FALSE))
    /\ []((runKind = "full" /\ pc = "show") =>
              IF failedAt = 0
              THEN SummaryShape(NSteps, FALSE) /\ Len(summary) = NSteps
              ELSE SummaryShape(failedAt - 1, TRUE))
    /\ [](\A i \in 1..Len(summary) :
              summary[i][2] = "OK (simulated)" =>
                  (summary[i][1] = "Artefact verification" /\ dry_run))

\* a full run is over in which Interactive Configure failed: six OK records
\* and the FAILED record of the seventh step
C24_Witness ==
    /\ runKind = "full"
    /\ pc = "show"
    /\ failedAt = 7
    /\ Len(summary) = 7
    /\ summary[6] = <<"Overlay", "OK">>
    /\ summary[7] = <<"menuconfig", "FAILED">>

\* positions of prepare_overlay_directory after the staging directory has
\* been appended to cleanup_paths
OverlayWritePcs == {"overlay_stage", "overlay_rmtree", "overlay_copytree",
                    "overlay_end"}

\* C25 as stated: while Prepare Overlay can write into its staging
\* directory or fail, the directory is on the temporary-path list; a staging
\* directory on disk is on the list until _cleanup has taken it off in
\* order to remove it; and once the process has ended, by normal exit,
\* uncaught failure or signal, no staging directory is left on disk.
C25_StagingRemoved ==
    /\ (pc \in OverlayWritePcs =>
            /\ overlay_tmp \in SeqRange(cleanup_paths)
            /\ overlay_tmp \in tmpdirs)
    /\ (~inAtexit /\ ~inHandler /\ pc # "overlay_register" =>
            tmpdirs \subseteq SeqRange(cleanup_paths))
    /\ (pc = "done" => tmpdirs = {})

\* Apply Config, outside dry-run and with the repository present, has raised
RecipeMissingFailure ==
    /\ ~dry_run
    /\ repo_dir
    /\ started # <<>>
    /\ Last(started) = 5
    /\ lastOutcome = "raised"

\* C26: outside dry-run, with the repository present, Apply Config first
\* brings the device-tree file to the fixed text and only then looks for the
\* recipe; when the recipe is absent it raises there, writing nothing more
\* and appending no record; so whenever it has raised with the repository
\* present, the recipe is absent, the device-tree file holds the fixed text
\* and the invocation has added nothing to the summary.
C26_RecipeMissingAfterDts ==
    /\ [][(pc = "configs_dts" /\ ~dry_run /\ signals' = signals) =>
              /\ dts' = "fixed"
              /\ pc' = "configs_mk"
              /\ mk' = mk
              /\ summary' = summary]_vars
    /\ [][(pc = "configs_mk" /\ ~dry_run /\ ~mk.exists
              /\ signals' = signals) =>
              /\ lastOutcome' = "raised"
              /\ summary' = summary
              /\ Tree' = Tree
              /\ dts = "fixed"]_vars
    /\ [](RecipeMissingFailure =>
              /\ ~mk.exists
              /\ dts = "fixed"
              /\ Len(summary) = sumAtStart)

\* Apply Config, run on its own, has rewritten the device-tree file and then
\* raised because the recipe is missing
C26_Witness ==
    /\ RecipeMissingFailure
    /\ started = <<5>>
    /\ signals = 0
    /\ Entry(" OK ", "Updated RA74 DTS description.", "") \in SeqRange(log)
    /\ dts = "fixed"
    /\ ~mk.exists
    /\ summary = <<>>

====
